---- MODULE Spec2Model ----
(***************************************************************************)
(* A model of src/app.py: the keyword / fuzzy risk classifier analyze_risk *)
(* and the two Flask routes that read and write the SQLite tables          *)
(* `alerts` and `settings` (/api/analyze and POST /api/settings).          *)
(*                                                                         *)
(* Text is a string; its i-th character is SubSeq(s, i, i).  Scores are    *)
(* integers in thousandths (0.73 is 730) and match totals are integers in  *)
(* tenths (an exact match is 10, a fuzzy word match 8, a fuzzy phrase      *)
(* match 9), so that min(score_base + matches * 0.03, 1.0) is              *)
(* Min(score_base + 3 * matches, 1000).                                    *)
(***************************************************************************)
EXTENDS Integers, Sequences, FiniteSets, TLC

VARIABLES
    settings,        \* the row id=1 of table settings
    alerts,          \* the rows of table alerts, in insertion order
    request,         \* the request served last
    response,        \* the reply to it
    core_ran,        \* whether serving it called analyze_risk
    detected_risks   \* text |-> the detected_risks list analyze_risk builds for it

vars == <<settings, alerts, request, response, core_ran, detected_risks>>

-----------------------------------------------------------------------------
(* Integer helpers *)

Min(a, b) == IF a <= b THEN a ELSE b

Max(a, b) == IF a >= b THEN a ELSE b

SetMax(S) == CHOOSE x \in S : \A y \in S : y <= x

SetMin(S) == CHOOSE x \in S : \A y \in S : x <= y

-----------------------------------------------------------------------------
(* Python str operations used by analyze_risk *)

\* s[i], counting from 1
char(s, i) == SubSeq(s, i, i)

UpperChars == "ABCDEFGHIJKLMNOPQRSTUVWXYZ"

LowerChars == "abcdefghijklmnopqrstuvwxyz"

\* one character of str.lower()
lower_char(c) ==
    IF \E i \in 1..Len(UpperChars) : char(UpperChars, i) = c
    THEN char(LowerChars, CHOOSE i \in 1..Len(UpperChars) : char(UpperChars, i) = c)
    ELSE c

RECURSIVE lower(_)
\* str.lower()
lower(text) ==
    IF Len(text) = 0 THEN ""
    ELSE lower_char(char(text, 1)) \o lower(SubSeq(text, 2, Len(text)))

\* the characters str.split() treats as separators
Whitespace == {" ", "\t", "\n"}

RECURSIVE split_from(_, _, _, _)
split_from(s, i, cur, out) ==
    IF i > Len(s)
    THEN IF cur = "" THEN out ELSE Append(out, cur)
    ELSE IF char(s, i) \in Whitespace
         THEN split_from(s, i + 1, "", IF cur = "" THEN out ELSE Append(out, cur))
         ELSE split_from(s, i + 1, cur \o char(s, i), out)

\* str.split() without arguments: runs of whitespace separate, no empty words
split(s) == split_from(s, 1, "", <<>>)

RECURSIVE join(_)
\* ' '.join(words)
join(words) ==
    IF Len(words) = 0 THEN ""
    ELSE IF Len(words) = 1 THEN words[1]
    ELSE words[1] \o " " \o join(Tail(words))

\* Python slice s[lo:hi] with 0 <= lo, clipped at the end of s
slice(s, lo, hi) == SubSeq(s, lo + 1, Min(hi, Len(s)))

\* Python `sub in s`
contains(sub, s) ==
    \E i \in 0..(Len(s) - Len(sub)) : SubSeq(s, i + 1, i + Len(sub)) = sub

-----------------------------------------------------------------------------
(* fuzzywuzzy.fuzz over difflib.SequenceMatcher (the library's pure-Python *)
(* matcher; strings here are far below the 200 characters at which         *)
(* difflib's autojunk heuristic starts).                                   *)

RECURSIVE run_length(_, _, _, _, _, _)
\* length of the common run of a[i:ahi] and b[j:bhi] starting at i and j
run_length(a, b, i, j, ahi, bhi) ==
    IF i < ahi /\ j < bhi /\ char(a, i + 1) = char(b, j + 1)
    THEN 1 + run_length(a, b, i + 1, j + 1, ahi, bhi)
    ELSE 0

\* SequenceMatcher.find_longest_match: the longest block, earliest in a,
\* then earliest in b; <<alo, blo, 0>> when nothing matches
find_longest_match(a, b, alo, ahi, blo, bhi) ==
    LET pairs == (alo..(ahi - 1)) \X (blo..(bhi - 1))
        runs  == [p \in pairs |-> run_length(a, b, p[1], p[2], ahi, bhi)]
        best  == IF pairs = {} THEN 0 ELSE SetMax({runs[p] : p \in pairs})
    IN  IF best = 0 THEN <<alo, blo, 0>>
        ELSE LET i == SetMin({p[1] : p \in {q \in pairs : runs[q] = best}})
                 j == SetMin({p[2] : p \in {q \in pairs : q[1] = i /\ runs[q] = best}})
             IN  <<i, j, best>>

RECURSIVE matching_blocks(_, _, _, _, _, _)
\* the recursion of SequenceMatcher.get_matching_blocks: the longest block,
\* then the blocks to its left and to its right
matching_blocks(a, b, alo, ahi, blo, bhi) ==
    LET m == find_longest_match(a, b, alo, ahi, blo, bhi)
        i == m[1]
        j == m[2]
        k == m[3]
    IN  IF k = 0 THEN {}
        ELSE {m}
             \cup (IF alo < i /\ blo < j
                   THEN matching_blocks(a, b, alo, i, blo, j) ELSE {})
             \cup (IF i + k < ahi /\ j + k < bhi
                   THEN matching_blocks(a, b, i + k, ahi, j + k, bhi) ELSE {})

\* SequenceMatcher.get_matching_blocks, with its terminating dummy block
\* (merging adjacent blocks changes neither their total size nor j - i)
get_matching_blocks(a, b) ==
    matching_blocks(a, b, 0, Len(a), 0, Len(b)) \cup {<<Len(a), Len(b), 0>>}

RECURSIVE block_sizes(_)
block_sizes(blocks) ==
    IF blocks = {} THEN 0
    ELSE LET m == CHOOSE x \in blocks : TRUE IN m[3] + block_sizes(blocks \ {m})

\* number of matched characters, the M of SequenceMatcher.ratio() = 2.0*M/T
matched_chars(a, b) == block_sizes(get_matching_blocks(a, b))

\* utils.intr(100 * num / den): Python 3 round(), half to even
intr(num, den) ==
    LET q == (100 * num) \div den
        r == (100 * num) % den
    IN  IF 2 * r > den THEN q + 1
        ELSE IF 2 * r < den THEN q
        ELSE IF q % 2 = 0 THEN q ELSE q + 1

\* fuzz.ratio: 100 for equal strings, 0 when one is empty, else the rounded
\* percentage 100 * 2*M/T
ratio(s1, s2) ==
    IF s1 = s2 THEN 100
    ELSE IF Len(s1) = 0 \/ Len(s2) = 0 THEN 0
    ELSE intr(2 * matched_chars(s1, s2), Len(s1) + Len(s2))

\* fuzz.partial_ratio: the best ratio of the shorter string against the
\* windows of the longer one that the matching blocks line up with
partial_ratio(s1, s2) ==
    IF s1 = s2 THEN 100
    ELSE IF Len(s1) = 0 \/ Len(s2) = 0 THEN 0
    ELSE LET shorter == IF Len(s1) <= Len(s2) THEN s1 ELSE s2
             longer  == IF Len(s1) <= Len(s2) THEN s2 ELSE s1
             starts  == {Max(m[2] - m[1], 0) : m \in get_matching_blocks(shorter, longer)}
             substr(long_start) == slice(longer, long_start, long_start + Len(shorter))
             score(long_start) ==
                 IF substr(long_start) = shorter THEN 100
                 ELSE intr(2 * matched_chars(shorter, substr(long_start)),
                           Len(shorter) + Len(substr(long_start)))
         IN  SetMax({score(ls) : ls \in starts})

-----------------------------------------------------------------------------
(* analyze_risk.patterns: the categories in dict insertion order, each    *)
(* keyword list in source order ('end my life' is listed twice there),    *)
(* score_base in thousandths, fuzzy_threshold in percent.                 *)

self_harm_keywords ==
    << "suicide", "suicidal", "kill myself", "killing myself", "end my life"
     , "take my life", "taking my life", "self harm", "self-harm"
     , "selfharm", "self injury", "self-injury", "selfinjury"
     , "self inflict", "self-inflict", "selfinflict", "self mutilat"
     , "self-mutilat", "selfmutilat", "self destruct", "self-destruct"
     , "selfdestruct", "want to die", "wanna die", "want death"
     , "wish i was dead", "wish i were dead", "wish i died", "hope i die"
     , "better off dead", "world without me", "no reason to live"
     , "not worth living", "life is not worth", "nothing to live for"
     , "can't go on", "cant go on", "can't take it", "cant take it"
     , "can't do this", "give up on life", "giving up on life", "cut myself"
     , "cutting myself", "cut my", "hurt myself", "hurting myself"
     , "hurt my", "harm myself", "harming myself", "harm my", "burn myself"
     , "burning myself", "hit myself", "hitting myself", "scratch myself"
     , "scratching myself", "end it all", "end things", "end everything"
     , "end my life", "ending my life", "finish it", "finish everything"
     , "hang myself", "hanging myself", "jump off", "jumping off"
     , "overdose", "overdosing", "slit my wrist", "cut my wrist"
     , "pills to die", "take pills", "goodbye world", "goodbye cruel world"
     , "nobody will miss me", "better without me", "tired of living"
     , "done with life" >>

grooming_keywords ==
    << "secret", "dont tell", "don't tell", "special friend", "meet up"
     , "send photo", "video call alone", "age", "how old"
     , "mature for your age", "trust me", "our secret", "our little secret"
     , "come over", "pick you up", "special relationship" >>

cyberbullying_keywords ==
    << "kill yourself", "kys", "nobody likes you", "loser", "fat", "ugly"
     , "worthless", "die", "hate you", "stupid", "dumb", "pathetic", "freak"
     , "waste of space", "go die", "nobody cares", "everyone hates you" >>

drugs_keywords ==
    << "buy weed", "get high", "want pills", "drug dealer", "cocaine"
     , "heroin", "where to buy", "how much for", "mdma", "vape"
     , "cigarettes", "smoke weed", "get drugs", "selling drugs", "marijuana"
     , "meth", "acid", "lsd" >>

sextortion_keywords ==
    << "send nudes", "naked pic", "i'll share", "ill share", "expose you"
     , "blackmail", "nude photo", "threaten", "post online"
     , "embarrassing photo", "explicit photo", "share your photos"
     , "leak your pics" >>

scam_keywords ==
    << "send money", "paypal", "venmo", "cash app", "gift card", "bitcoin"
     , "wire transfer", "bank account", "urgent payment", "limited time"
     , "act now", "exclusive offer", "send cash", "credit card" >>

patterns ==
    << [risk_type |-> "self_harm", keywords |-> self_harm_keywords,
        score_base |-> 900, fuzzy_threshold |-> 85]
    ,  [risk_type |-> "grooming", keywords |-> grooming_keywords,
        score_base |-> 800, fuzzy_threshold |-> 85]
    ,  [risk_type |-> "cyberbullying", keywords |-> cyberbullying_keywords,
        score_base |-> 700, fuzzy_threshold |-> 80]
    ,  [risk_type |-> "drugs", keywords |-> drugs_keywords,
        score_base |-> 750, fuzzy_threshold |-> 85]
    ,  [risk_type |-> "sextortion", keywords |-> sextortion_keywords,
        score_base |-> 850, fuzzy_threshold |-> 85]
    ,  [risk_type |-> "scam", keywords |-> scam_keywords,
        score_base |-> 600, fuzzy_threshold |-> 85]
    >>

-----------------------------------------------------------------------------
(* analyze_risk *)

\* the evidence string f"{keyword} (~{word})"
fuzzy_label(keyword, near) == keyword \o " (~" \o near \o ")"

\* The else branch of the keyword loop body: the word loop and then the
\* sliding-window phrase loop.  Each stops at its own first hit (`break`
\* leaves only the loop it is in), and the phrase loop runs whether or not
\* the word loop has hit.
fuzzy_matches(text_lower, keyword, fuzzy_threshold) ==
    LET words == split(text_lower)
        word_hits == {i \in 1..Len(words) :
                         /\ Len(words[i]) >= 3
                         /\ ratio(keyword, words[i]) >= fuzzy_threshold}
        keyword_word_count == Len(split(keyword))
        phrase(i) == join(SubSeq(words, i + 1, i + keyword_word_count))
        phrase_hits == {i \in 0..(Len(words) - keyword_word_count) :
                           partial_ratio(keyword, phrase(i)) >= fuzzy_threshold}
        word_part ==
            IF word_hits = {} THEN [matches |-> 0, matched_keywords |-> <<>>]
            ELSE [matches |-> 8,
                  matched_keywords |-> <<fuzzy_label(keyword, words[SetMin(word_hits)])>>]
        phrase_part ==
            IF phrase_hits = {} THEN [matches |-> 0, matched_keywords |-> <<>>]
            ELSE [matches |-> 9,
                  matched_keywords |-> <<fuzzy_label(keyword, phrase(SetMin(phrase_hits)))>>]
    IN  [matches |-> word_part.matches + phrase_part.matches,
         matched_keywords |-> word_part.matched_keywords \o phrase_part.matched_keywords]

\* keyword_matches with an exact match given the weight of a fuzzy word match
keyword_matches_exact_as_fuzzy(text_lower, keyword, fuzzy_threshold) ==
    IF contains(keyword, text_lower)
    THEN [matches |-> 8, matched_keywords |-> <<keyword>>]
    ELSE fuzzy_matches(text_lower, keyword, fuzzy_threshold)

\* One pass of the keyword loop body: what a keyword adds to `matches` (in
\* tenths) and to matched_keywords
keyword_matches(text_lower, keyword, fuzzy_threshold) ==
    IF contains(keyword, text_lower)
    THEN [matches |-> 10, matched_keywords |-> <<keyword>>]
    ELSE fuzzy_matches(text_lower, keyword, fuzzy_threshold)

RECURSIVE scan_keywords(_, _, _, _)
\* the loop `for keyword in data['keywords']` over keywords lo..hi: the sum
\* of what each keyword adds and the evidence in keyword order (the loop is
\* a left-to-right accumulation; it is split in halves here only to keep
\* the evaluation shallow)
scan_keywords(text_lower, data, lo, hi) ==
    IF lo > hi THEN [matches |-> 0, matched_keywords |-> <<>>]
    ELSE IF lo = hi
    THEN keyword_matches(text_lower, data.keywords[lo], data.fuzzy_threshold)
    ELSE LET mid   == (lo + hi) \div 2
             left  == scan_keywords(text_lower, data, lo, mid)
             right == scan_keywords(text_lower, data, mid + 1, hi)
         IN  [matches |-> left.matches + right.matches,
              matched_keywords |-> left.matched_keywords \o right.matched_keywords]

\* matches and matched_keywords of one category after its keyword loop
category_matches(text_lower, data) ==
    scan_keywords(text_lower, data, 1, Len(data.keywords))

\* risk_score without the min(..., 1.0)
risk_score_unclamped(score_base, matches) == score_base + 3 * matches

\* min(data['score_base'] + (matches * 0.03), 1.0)
risk_score(score_base, matches) == Min(score_base + 3 * matches, 1000)

RECURSIVE scan_patterns(_, _, _)
\* the loop `for risk_type, data in patterns.items()` building detected_risks
scan_patterns(text_lower, i, built) ==
    IF i > Len(patterns) THEN built
    ELSE LET data == patterns[i]
             m == category_matches(text_lower, data)
         IN  scan_patterns(text_lower, i + 1,
                 IF m.matches > 0
                 THEN Append(built,
                             [risk_type |-> data.risk_type,
                              risk_score |-> risk_score(data.score_base, m.matches),
                              matches |-> m.matches,
                              keywords |-> slice(m.matched_keywords, 0, 3)])
                 ELSE built)

\* detected_risks as analyze_risk has built it when the loops are over
detect(text) == scan_patterns(lower(text), 1, <<>>)

RECURSIVE last_max(_, _, _)
\* first_max with >= for >: among equal keys the last entry wins
last_max(risks, i, best) ==
    IF i > Len(risks) THEN best
    ELSE last_max(risks, i + 1,
                  IF risks[i].risk_score >= best.risk_score
                  THEN risks[i] ELSE best)

RECURSIVE first_max(_, _, _)
\* max(detected_risks, key=lambda x: x['risk_score']): a later entry replaces
\* the current one only when its key is strictly greater
first_max(risks, i, best) ==
    IF i > Len(risks) THEN best
    ELSE first_max(risks, i + 1,
                   IF risks[i].risk_score > best.risk_score
                   THEN risks[i] ELSE best)

highest_of(risks) == first_max(risks, 2, risks[1])

\* level_of with the first threshold at 0.7
level_of_low_critical(score) ==
    IF score >= 700 THEN "critical"
    ELSE IF score >= 600 THEN "high"
    ELSE IF score >= 400 THEN "medium"
    ELSE "low"

\* the chain `if score >= 0.8 ... elif ... else 'low'`
level_of(score) ==
    IF score >= 800 THEN "critical"
    ELSE IF score >= 600 THEN "high"
    ELSE IF score >= 400 THEN "medium"
    ELSE "low"

\* the explanations dict
explanations(risk_type) ==
    CASE risk_type = "grooming" ->
           "Potential grooming behavior detected. This conversation may contain predatory language."
      [] risk_type = "cyberbullying" ->
           "Harmful language detected. This message contains bullying or threatening content."
      [] risk_type = "self_harm" ->
           "URGENT: Self-harm indicators detected. Immediate attention recommended."
      [] risk_type = "drugs" ->
           "Drug-related content detected. Conversation may involve illegal substances."
      [] risk_type = "sextortion" ->
           "Potential sextortion detected. This appears to involve coercion or blackmail."
      [] risk_type = "scam" ->
           "Potential scam detected. This message shows signs of financial fraud."
      [] OTHER -> "Risk detected."

\* the dict analyze_risk returns for the detected_risks it has built
result_of(risks) ==
    IF risks = <<>>
    THEN [risk_type |-> "none", risk_level |-> "safe", risk_score |-> 0,
          explanation |-> "No concerning content detected."]
    ELSE LET highest_risk == highest_of(risks)
         IN  [risk_type |-> highest_risk.risk_type,
              risk_level |-> level_of(highest_risk.risk_score),
              risk_score |-> highest_risk.risk_score,
              explanation |-> explanations(highest_risk.risk_type),
              matched_keywords |-> highest_risk.keywords]


-----------------------------------------------------------------------------
(* Bounds and inputs of the model *)

\* rows the alerts table may hold before inserting requests stop being issued
MaxAlerts == 1

\* text[:500]
ContentLimit == 500

\* the request texts that are tried, with '' for an empty text
Texts ==
    { "", "hello", "hello, how are you today", "loser", "Loser", "suicied",
      "self-harm", "suicide", "secret", "paypal", "meth", "blackmail",
      "gift card", "send nudes a photo" }

Senders == {"child", "stranger", "unknown"}

\* JSON bodies posted to /api/analyze: `text` may be missing
AnalyzeBodies ==
    [text : Texts, sender : Senders] \cup [sender : Senders]

\* alert_threshold values posted to /api/settings (thousandths)
PostedThresholds == {0, 800}

\* JSON bodies posted to /api/settings: every key may be missing
SettingsBodies ==
    { [k \in keys |-> IF k = "alert_threshold" THEN th
                      ELSE IF k = "parent_consent" THEN pc ELSE me] :
        keys \in SUBSET {"parent_consent", "monitoring_enabled", "alert_threshold"},
        pc \in {0, 1}, me \in {0, 1}, th \in PostedThresholds }

\* analyze_risk(text).  Its two loops read nothing but the text and the
\* patterns, so what they build is worked out once per request text, when
\* the model starts, and looked up here.
analyze_risk(text) == result_of(detected_risks[text])

-----------------------------------------------------------------------------
(* The database and the routes *)

\* init_db on a fresh safety.db: no alerts, the settings row (1, 0, 0, 0.6);
\* no request has been served yet
Init ==
    /\ settings = [parent_consent |-> 0, monitoring_enabled |-> 0, alert_threshold |-> 600]
    /\ alerts = <<>>
    /\ request = [route |-> "none"]
    /\ response = [status |-> 0]
    /\ core_ran = FALSE
    /\ detected_risks = [t \in Texts |-> detect(t)]

\* dict.get(key, default)
get(data, key, default) == IF key \in DOMAIN data THEN data[key] ELSE default

\* /api/analyze for a non-empty text: analyze_risk, the settings row, the
\* insert and the reply.  The row's timestamp (datetime.now()) is left out;
\* its id is the AUTOINCREMENT key of a table nothing is deleted from.
analyze_text(data, text) ==
    LET analysis == analyze_risk(text)
        insert == /\ settings.monitoring_enabled # 0
                  /\ analysis.risk_score >= settings.alert_threshold
    IN  /\ insert => Len(alerts) < MaxAlerts
        /\ request' = [route |-> "/api/analyze", json |-> data]
        /\ core_ran' = TRUE
        /\ alerts' = IF insert
                     THEN Append(alerts,
                            [id |-> Len(alerts) + 1,
                             content |-> slice(text, 0, ContentLimit),
                             risk_type |-> analysis.risk_type,
                             risk_level |-> analysis.risk_level,
                             risk_score |-> analysis.risk_score,
                             context |-> analysis.explanation])
                     ELSE alerts
        /\ response' = [status |-> 200, body |-> analysis]
        /\ UNCHANGED <<settings, detected_risks>>

\* analyze without its `if not text` return
analyze_unguarded(data) == analyze_text(data, get(data, "text", ""))

\* POST /api/analyze
analyze(data) ==
    LET text == get(data, "text", "")
    IN  IF text = ""
        THEN /\ request' = [route |-> "/api/analyze", json |-> data]
             /\ response' = [status |-> 400, body |-> [error |-> "No text provided"]]
             /\ core_ran' = FALSE
             /\ UNCHANGED <<settings, alerts, detected_risks>>
        ELSE analyze_text(data, text)

\* POST /api/settings
update_settings(data) ==
    /\ request' = [route |-> "/api/settings", json |-> data]
    /\ settings' = [parent_consent |-> get(data, "parent_consent", 0),
                    monitoring_enabled |-> get(data, "monitoring_enabled", 0),
                    alert_threshold |-> get(data, "alert_threshold", 600)]
    /\ response' = [status |-> 200, body |-> [success |-> TRUE]]
    /\ core_ran' = FALSE
    /\ UNCHANGED <<alerts, detected_risks>>

Analyze == \E data \in AnalyzeBodies : analyze(data)

UpdateSettings == \E data \in SettingsBodies : update_settings(data)

Next == Analyze \/ UpdateSettings

Spec == Init /\ [][Next]_vars

-----------------------------------------------------------------------------
(* Vocabulary of the properties *)

\* the request served last was a POST /api/analyze
IsAnalyze(req) == req.route = "/api/analyze"

\* its text, '' when the key is missing
TextOf(req) == get(req.json, "text", "")

\* the request served last went through analyze_risk
Analysed == IsAnalyze(request) /\ core_ran

AlwaysAlert == {"grooming", "sextortion", "self_harm", "cyberbullying"}

\* the one order that decides between categories of equal score
CategoryPriority == <<"self_harm", "grooming", "cyberbullying", "drugs", "sextortion", "scam">>

PriorityRank(c) == CHOOSE i \in 1..Len(CategoryPriority) : CategoryPriority[i] = c

\* the categories text is a listed keyword of
CategoriesListing(text) ==
    {c \in 1..Len(patterns) :
        \E i \in 1..Len(patterns[c].keywords) : patterns[c].keywords[i] = text}

\* the level a score stands for
LevelMatches(score, level) ==
    /\ level = "critical" <=> score >= 800
    /\ level = "high" <=> (600 <= score /\ score < 800)
    /\ level = "medium" <=> (400 <= score /\ score < 600)
    /\ level = "low" <=> (0 < score /\ score < 400)
    /\ level = "safe" <=> score = 0

-----------------------------------------------------------------------------
(* C1: in analyze_risk every keyword adds at most one match and one piece  *)
(* of evidence for a message (exact, or fuzzy word, or fuzzy phrase), so a *)
(* category's match total never exceeds the number of its keywords that    *)
(* produced evidence.                                                      *)
C1_OneMatchPerKeyword ==
    Analysed =>
        \A c \in 1..Len(patterns) :
            LET data == patterns[c]
                of(i) == keyword_matches(lower(TextOf(request)), data.keywords[i],
                                         data.fuzzy_threshold)
                hit == {i \in 1..Len(data.keywords) : of(i).matches > 0}
            IN  /\ \A i \in 1..Len(data.keywords) :
                       /\ Len(of(i).matched_keywords) <= 1
                       /\ of(i).matches <= 10
                /\ category_matches(lower(TextOf(request)), data).matches
                       <= 10 * Cardinality(hit)

(* C2: analyze_risk on a listed keyword alone returns that keyword's       *)
(* category and exactly the category's score_base.                         *)
C2_KeywordAloneScoresBase ==
    Analysed =>
        \A c \in CategoriesListing(TextOf(request)) :
            /\ response.body.risk_type = patterns[c].risk_type
            /\ response.body.risk_score = patterns[c].score_base

(* C2, amended: analyze_risk on a listed keyword alone returns a score of  *)
(* at least min(score_base + 0.03, 1.0) of the keyword's category; when    *)
(* the one exact match is all the evidence the message yields, it returns  *)
(* that category and exactly score_base + 0.03.                            *)
C2_KeywordAloneScoresAboveBase ==
    Analysed =>
        \A c \in CategoriesListing(TextOf(request)) :
            LET built == detected_risks[TextOf(request)]
                sole == Len(built) = 1 /\ built[1].matches = 10
            IN  /\ response.body.risk_score >= Min(patterns[c].score_base + 30, 1000)
                /\ sole => /\ response.body.risk_type = patterns[c].risk_type
                           /\ response.body.risk_score = patterns[c].score_base + 30

\* 'loser' alone: cyberbullying at 0.73, one exact match being all there is
C2_Witness ==
    /\ Analysed
    /\ TextOf(request) = "loser"
    /\ CategoriesListing("loser") = {3}
    /\ Len(detected_risks["loser"]) = 1
    /\ detected_risks["loser"][1].matches = 10
    /\ response.body.risk_type = "cyberbullying"
    /\ response.body.risk_score = 730

(* C3: the risk_score analyze_risk returns, and the risk_score of every    *)
(* stored alert row, lies in [0, 1].                                       *)
C3_ScoreInUnitInterval ==
    /\ Analysed => (0 <= response.body.risk_score /\ response.body.risk_score <= 1000)
    /\ \A i \in 1..Len(alerts) :
           0 <= alerts[i].risk_score /\ alerts[i].risk_score <= 1000

\* 'self-harm': 3.5 matches on a base of 0.9, returned and stored as 1.0
C3_Witness ==
    /\ Analysed
    /\ TextOf(request) = "self-harm"
    /\ detected_risks["self-harm"][1].matches = 35
    /\ response.body.risk_score = 1000
    /\ Len(alerts) > 0
    /\ alerts[Len(alerts)].content = "self-harm"
    /\ alerts[Len(alerts)].risk_score = 1000

(* C4: whenever /api/analyze classifies a message into grooming,           *)
(* sextortion, self_harm or cyberbullying it inserts an alert row,         *)
(* whatever monitoring_enabled and alert_threshold are.                    *)
C4_AlwaysAlertCategoriesAlert ==
    [][ (IsAnalyze(request') /\ core_ran' /\ response'.body.risk_type \in AlwaysAlert)
            => Len(alerts') = Len(alerts) + 1 ]_vars

(* C5: for a text classified as cyberbullying, a request from a stranger   *)
(* alerts the guardian and the same request from the child does not.       *)
C5_SenderRoleAsymmetry ==
    [][ (IsAnalyze(request') /\ core_ran' /\ response'.body.risk_type = "cyberbullying")
            => /\ request'.json.sender = "stranger" => Len(alerts') = Len(alerts) + 1
               /\ request'.json.sender = "child" => alerts' = alerts ]_vars

(* C6: a request to /api/analyze with an empty or missing text gets the    *)
(* validation error: analyze_risk is not run, no assessment is returned,   *)
(* and the alerts and settings tables are left as they were.               *)
C6_EmptyTextRejected ==
    [][ (IsAnalyze(request') /\ TextOf(request') = "")
            => /\ response'.status = 400
               /\ DOMAIN response'.body = {"error"}
               /\ ~core_ran'
               /\ alerts' = alerts
               /\ settings' = settings ]_vars

\* an empty text refused while monitoring is on with threshold 0 and a row
\* is already stored
C6_Witness ==
    /\ IsAnalyze(request)
    /\ "text" \in DOMAIN request.json
    /\ request.json.text = ""
    /\ response.status = 400
    /\ ~core_ran
    /\ settings.monitoring_enabled = 1
    /\ settings.alert_threshold = 0
    /\ Len(alerts) = 1

(* C7: /api/analyze never calls analyze_risk while the stored              *)
(* parent_consent is false.                                                *)
C7_ConsentBeforeCore ==
    Analysed => settings.parent_consent = 1

(* C8: when some category has evidence, analyze_risk returns one category  *)
(* whose score is the maximum over the categories with evidence, and       *)
(* among categories sharing the maximum the first in one fixed order.      *)
C8_MaxScoreFixedPriority ==
    (Analysed /\ detected_risks[TextOf(request)] # <<>>) =>
        LET built == detected_risks[TextOf(request)]
            top == SetMax({built[i].risk_score : i \in 1..Len(built)})
            winners == {built[i].risk_type : i \in {j \in 1..Len(built) : built[j].risk_score = top}}
        IN  /\ response.body.risk_score = top
            /\ response.body.risk_type \in winners
            /\ \A w \in winners : PriorityRank(response.body.risk_type) <= PriorityRank(w)

\* 'send nudes a photo': self_harm and sextortion both at 1.0, self_harm returned
C8_Witness ==
    /\ Analysed
    /\ TextOf(request) = "send nudes a photo"
    /\ LET built == detected_risks["send nudes a photo"]
       IN  {built[i].risk_type : i \in {j \in 1..Len(built) : built[j].risk_score = 1000}}
               = {"self_harm", "sextortion"}
    /\ response.body.risk_type = "self_harm"

(* C9: the risk_level analyze_risk returns is decided by the returned      *)
(* score alone: critical from 0.8, high from 0.6, medium from 0.4, low     *)
(* above 0, safe at 0; and it is safe exactly when risk_type is none.      *)
C9_LevelFromScore ==
    Analysed =>
        /\ LevelMatches(response.body.risk_score, response.body.risk_level)
        /\ response.body.risk_level = "safe" <=> response.body.risk_type = "none"

\* 'loser' at 0.73 is high while the stored 'secret' row at 0.83 is critical
C9_Witness ==
    /\ Analysed
    /\ TextOf(request) = "loser"
    /\ response.body.risk_score = 730
    /\ response.body.risk_level = "high"
    /\ Len(alerts) = 1
    /\ alerts[1].risk_score = 830
    /\ alerts[1].risk_level = "critical"

(* C10: a message no category has evidence for is answered none, safe, 0   *)
(* and /api/analyze stores no alert row for it, whatever the sender and    *)
(* the stored settings.                                                    *)
C10_NoEvidenceNoAlert ==
    [][ (IsAnalyze(request') /\ core_ran' /\ detected_risks[TextOf(request')] = <<>>)
            => /\ response'.body.risk_type = "none"
               /\ response'.body.risk_level = "safe"
               /\ response'.body.risk_score = 0
               /\ alerts' = alerts ]_vars
====
